---- MODULE Spec2Model ----
(***************************************************************************)
(* Model of the two artifacts of the repository:                           *)
(*   - the notebook example-files/notebooks/aws-1000genomes.ipynb, whose   *)
(*     code cells are run top to bottom (one action per code cell);        *)
(*   - the install script (a linear bash script, one action per command).  *)
(* A DataFrame is modelled as the set of its rows, a row as the record of  *)
(* the columns the notebook reads.  A Python list is a sequence.           *)
(***************************************************************************)
EXTENDS Integers, Sequences, FiniteSets

VARIABLES
    vcf,                         \* rows of the genotype file at genotypesPath
    pc,                          \* the next notebook cell to run
    IDs,                         \* the list IDs (trio membership)
    genotypes_df,                \* rows of the loaded genotype DataFrame
    trio_df,                     \* genotypes_df restricted to IDs
    trios_with_referenceRegion,  \* trio_df plus the ReferenceRegion column
    trios,                       \* the temp view "trios" of Spark SQL
    collected_sites,             \* names collected from the child query
    filtered1,                   \* the parent query
    filtered2,                   \* filtered1 restricted to collected_sites
    snp_counts,                  \* collected rows of groupBy("variant.names").count()
    denovo_snps,                 \* the flattened list of names
    cached,                      \* datasets currently pinned by cache()
    loaded,                      \* alignment datasets loaded so far
    events,                      \* engine calls in order: <<kind, dataset>>
    error,                       \* the exception that stopped the notebook, "none" if none
    ipc,                         \* the next command of the install script
    INVENV, SPARK_HOME, npm,     \* the environment the script tests
    invoked,                     \* build tools run so far, in order
    failed,                      \* build tools that returned non-zero
    dirs,                        \* the pushd/popd directory stack
    status,                      \* $? of the last command
    echoed,                      \* messages written by echo, in order
    exitStatus                   \* exit status of the script, -1 while running

nbvars == <<vcf, pc, IDs, genotypes_df, trio_df, trios_with_referenceRegion, trios,
            collected_sites, filtered1, filtered2, snp_counts, denovo_snps,
            cached, loaded, events, error>>
shvars == <<ipc, INVENV, SPARK_HOME, npm, invoked, failed, dirs, status, echoed, exitStatus>>
vars == <<nbvars, shvars>>

----------------------------------------------------------------------------
(* Bounds of the input domain. *)

\* rows of the genotype file in the variant analysis
MaxRecords == 3
\* rows of the genotype file when the whole notebook is run
MaxNotebookRecords == 1

SNPs == {"rs1", "rs2"}

Child == "NA19685"
Parent1 == "NA19661"
Parent2 == "NA19660"
Outsider == "NA12878"

TrioIDs == <<"NA19685", "NA19661", "NA19660">>

Samples == {Child, Parent1, Parent2, Outsider}

AlleleCalls == {<<"REF", "REF">>, <<"REF", "ALT">>}

Range(s) == {s[i] : i \in DOMAIN s}

IsInjective(s) == \A i, j \in DOMAIN s : s[i] = s[j] => i = j

\* variant.names of a row: a list of distinct identifiers, possibly empty
NameLists ==
    UNION {{s \in [1..n -> SNPs] : IsInjective(s)} : n \in 0..Cardinality(SNPs)}

Rows ==
    [sampleId : Samples, alleles : AlleleCalls, names : NameLists,
     contigName : {"17"}, start : {63052580}, end : {63052581}]

RECURSIVE RowSetsUpTo(_)
RowSetsUpTo(n) ==
    IF n = 0 THEN {{}}
    ELSE LET S == RowSetsUpTo(n - 1) IN S \cup {s \cup {r} : s \in S, r \in Rows}

----------------------------------------------------------------------------
(* Spark SQL expressions used by the notebook. *)

NULL == "<null>"

\* array_contains(arr, x)
ArrayContains(arr, x) == \E i \in DOMAIN arr : arr[i] = x

\* variant.names[0]: the first element, NULL when the array is empty
PrimaryName(r) == IF Len(r.names) = 0 THEN NULL ELSE r.names[1]

\* col.isin(list): a NULL value never matches
IsIn(x, list) == x # NULL /\ x \in list

\* the trio filter negated
TrioFilterNotIn(df, ids) == {r \in df : ~IsIn(r.sampleId, Range(ids))}

\* genotypes_df.filter(genotypes_df["sampleId"].isin(IDs))
TrioFilter(df, ids) == {r \in df : IsIn(r.sampleId, Range(ids))}

\* sf.concat(contigName, ':', start, '-', end)
ReferenceRegion(r) == <<r.contigName, ":", r.start, "-", r.end>>

\* trio_df.withColumn('ReferenceRegion', ...)
WithReferenceRegion(df) ==
    {[sampleId |-> r.sampleId, alleles |-> r.alleles, names |-> r.names,
      contigName |-> r.contigName, start |-> r.start, end |-> r.end,
      ReferenceRegion |-> ReferenceRegion(r)] : r \in df}

\* WHERE array_contains(alleles, 'ALT') AND sampleId == 'NA19685'
ChildWhere(r) == ArrayContains(r.alleles, "ALT") /\ r.sampleId = "NA19685"

\* SELECT variant.names[0] AS snp ... ; map(lambda x: x.snp, ...collect())
\* The list is only ever tested for membership: it is kept as a set.
CollectedSites(view) == {PrimaryName(r) : r \in {q \in view : ChildWhere(q)}}

\* the parent query with the OR parenthesised
Filtered1WhereParenthesised(r) ==
    (r.sampleId = "NA19661" \/ r.sampleId = "NA19660")
    /\ ~ArrayContains(r.alleles, "ALT")

\* WHERE sampleId == 'NA19661' or sampleId == 'NA19660' AND !array_contains(alleles, 'ALT')
\* (AND binds tighter than OR)
Filtered1Where(r) ==
    r.sampleId = "NA19661"
    \/ (r.sampleId = "NA19660" /\ ~ArrayContains(r.alleles, "ALT"))

Filtered1(view) == {r \in view : Filtered1Where(r)}

\* the membership filter inverted
Filtered2NotIn(f1, sites) == {r \in f1 : ~IsIn(PrimaryName(r), sites)}

\* filtered1.filter(filtered1["variant.names"][0].isin(collected_sites))
Filtered2(f1, sites) == {r \in f1 : IsIn(PrimaryName(r), sites)}

\* filtered2.groupBy("variant.names").count(): one row per distinct names list
GroupCounts(f2) ==
    {[names |-> n, count |-> Cardinality({r \in f2 : r.names = n})] :
        n \in {r.names : r \in f2}}

\* the grouped rows of the trio, parent and child queries run on a genotype file
DenovoGroups(file, ids) ==
    LET view == WithReferenceRegion(TrioFilter(file, ids))
    IN  GroupCounts(Filtered2(Filtered1(view), CollectedSites(view)))

\* collect() of a grouped DataFrame: the rows in an order Spark does not fix
Collections(S) ==
    {s \in [1..Cardinality(S) -> S] : IsInjective(s)}

\* snp_names = map(lambda x: x.names, snp_counts)
SnpNames(counts) == [i \in DOMAIN counts |-> counts[i].names]

\* [item for sublist in snp_names for item in sublist]
RECURSIVE Flatten(_)
Flatten(lists) ==
    IF lists = <<>> THEN <<>> ELSE Head(lists) \o Flatten(Tail(lists))

----------------------------------------------------------------------------
(* The notebook: one action per code cell. *)

ScriptIdle ==
    /\ ipc = "venv"
    /\ INVENV = "1"
    /\ SPARK_HOME = "/usr/lib/spark"
    /\ npm = TRUE
    /\ invoked = <<>>
    /\ failed = {}
    /\ dirs = <<".">>
    /\ status = 0
    /\ echoed = <<>>
    /\ exitStatus = -1

NotebookStart(files) ==
    /\ vcf \in files
    /\ pc = "load"
    /\ IDs = <<>>
    /\ genotypes_df = {}
    /\ trio_df = {}
    /\ trios_with_referenceRegion = {}
    /\ trios = {}
    /\ collected_sites = {}
    /\ filtered1 = {}
    /\ filtered2 = {}
    /\ snp_counts = <<>>
    /\ denovo_snps = <<>>
    /\ cached = {}
    /\ loaded = {}
    /\ events = <<>>
    /\ error = "none"

Init == NotebookStart(RowSetsUpTo(MaxRecords)) /\ ScriptIdle

\* genotypes = ac.loadGenotypes(genotypesPath); genotypes_df = genotypes.toDF()
CellLoadGenotypes ==
    /\ pc = "load"
    /\ genotypes_df' = vcf
    /\ pc' = "ids"
    /\ UNCHANGED <<vcf, error, IDs, trio_df, trios_with_referenceRegion, trios,
                   collected_sites, filtered1, filtered2, snp_counts,
                   denovo_snps, cached, loaded, events>>
    /\ UNCHANGED shvars

\* IDs = ['NA19685','NA19661','NA19660']
CellIDs ==
    /\ pc = "ids"
    /\ IDs' = TrioIDs
    /\ pc' = "trio"
    /\ UNCHANGED <<vcf, error, genotypes_df, trio_df, trios_with_referenceRegion, trios,
                   collected_sites, filtered1, filtered2, snp_counts,
                   denovo_snps, cached, loaded, events>>
    /\ UNCHANGED shvars

\* trio_df = genotypes_df.filter(...); trio_df.cache(); trio_df.count()
CellTrio ==
    /\ pc = "trio"
    /\ trio_df' = TrioFilter(genotypes_df, IDs)
    /\ cached' = cached \cup {"trio_df"}
    /\ events' = events \o <<<<"cache", "trio_df">>, <<"query", "trio_df">>>>
    /\ pc' = "refregion"
    /\ UNCHANGED <<vcf, error, IDs, genotypes_df, trios_with_referenceRegion, trios,
                   collected_sites, filtered1, filtered2, snp_counts,
                   denovo_snps, loaded>>
    /\ UNCHANGED shvars

\* trios_with_referenceRegion = trio_df.withColumn('ReferenceRegion', ...)
CellReferenceRegion ==
    /\ pc = "refregion"
    /\ trios_with_referenceRegion' = WithReferenceRegion(trio_df)
    /\ pc' = "register"
    /\ UNCHANGED <<vcf, error, IDs, genotypes_df, trio_df, trios, collected_sites,
                   filtered1, filtered2, snp_counts, denovo_snps, cached,
                   loaded, events>>
    /\ UNCHANGED shvars

\* trios_with_referenceRegion.createOrReplaceTempView("trios")
CellRegister ==
    /\ pc = "register"
    /\ trios' = trios_with_referenceRegion
    /\ pc' = "childquery"
    /\ UNCHANGED <<vcf, error, IDs, genotypes_df, trio_df, trios_with_referenceRegion,
                   collected_sites, filtered1, filtered2, snp_counts,
                   denovo_snps, cached, loaded, events>>
    /\ UNCHANGED shvars

\* alternate_variant_sites = spark.sql(...); collected_sites = map(..., .collect())
CellChildQuery ==
    /\ pc = "childquery"
    /\ collected_sites' = CollectedSites(trios)
    /\ events' = Append(events, <<"query", "trio_df">>)
    /\ pc' = "parentquery"
    /\ UNCHANGED <<vcf, error, IDs, genotypes_df, trio_df, trios_with_referenceRegion,
                   trios, filtered1, filtered2, snp_counts, denovo_snps,
                   cached, loaded>>
    /\ UNCHANGED shvars

\* filtered1 = spark.sql(...); filtered2 = filtered1.filter(...);
\* snp_counts = filtered2.groupBy("variant.names").count().collect()
CellParentQuery ==
    /\ pc = "parentquery"
    /\ filtered1' = Filtered1(trios)
    /\ filtered2' = Filtered2(filtered1', collected_sites)
    /\ \E rows \in Collections(GroupCounts(filtered2')) : snp_counts' = rows
    /\ events' = Append(events, <<"query", "trio_df">>)
    /\ pc' = "snpnames"
    /\ UNCHANGED <<vcf, error, IDs, genotypes_df, trio_df, trios_with_referenceRegion,
                   trios, collected_sites, denovo_snps, cached, loaded>>
    /\ UNCHANGED shvars

\* snp_names = map(...); denovo_snps = [item for sublist in snp_names for item in sublist]
CellSnpNames ==
    /\ pc = "snpnames"
    /\ denovo_snps' = Flatten(SnpNames(snp_counts))
    /\ pc' = "unpersist"
    /\ UNCHANGED <<vcf, error, IDs, genotypes_df, trio_df, trios_with_referenceRegion,
                   trios, collected_sites, filtered1, filtered2, snp_counts,
                   cached, loaded, events>>
    /\ UNCHANGED shvars

\* trio_df.unpersist()
CellUnpersistTrio ==
    /\ pc = "unpersist"
    /\ cached' = cached \ {"trio_df"}
    /\ events' = Append(events, <<"unpersist", "trio_df">>)
    /\ pc' = "loadalign"
    /\ UNCHANGED <<vcf, error, IDs, genotypes_df, trio_df, trios_with_referenceRegion,
                   trios, collected_sites, filtered1, filtered2, snp_counts,
                   denovo_snps, loaded>>
    /\ UNCHANGED shvars

VariantQueries ==
    \/ CellLoadGenotypes
    \/ CellTrio
    \/ CellReferenceRegion
    \/ CellRegister
    \/ CellChildQuery
    \/ CellParentQuery
    \/ CellSnpNames
    \/ CellUnpersistTrio

VariantAnalysis == CellIDs \/ VariantQueries

Next == VariantAnalysis

\* The variant analysis of the notebook, over every genotype file of at most
\* MaxRecords rows.
Spec == Init /\ [][Next]_vars

----------------------------------------------------------------------------
(* The alignment cells of the notebook. *)

\* childReads/parent1Reads/parent2Reads = ac.loadAlignments(..., stringency=LENIENT)
CellLoadAlignments ==
    /\ pc = "loadalign"
    /\ loaded' = loaded \cup {"childReads", "parent1Reads", "parent2Reads"}
    /\ events' = events \o <<<<"load", "childReads">>, <<"load", "parent1Reads">>,
                             <<"load", "parent2Reads">>>>
    /\ pc' = "cachechild"
    /\ UNCHANGED <<vcf, error, IDs, genotypes_df, trio_df, trios_with_referenceRegion,
                   trios, collected_sites, filtered1, filtered2, snp_counts,
                   denovo_snps, cached>>
    /\ UNCHANGED shvars

\* childReads.cache(); childReads.toDF().count()
CellCacheChildReads ==
    /\ pc = "cachechild"
    /\ cached' = cached \cup {"childReads"}
    /\ events' = events \o <<<<"cache", "childReads">>, <<"query", "childReads">>>>
    /\ pc' = "coverage"
    /\ UNCHANGED <<vcf, error, IDs, genotypes_df, trio_df, trios_with_referenceRegion,
                   trios, collected_sites, filtered1, filtered2, snp_counts,
                   denovo_snps, loaded>>
    /\ UNCHANGED shvars

\* childCoverage = childReads.transform(...).toCoverage();
\* childCoverage.cache(); childCoverage.toDF().count()
CellCoverage ==
    /\ pc = "coverage"
    /\ loaded' = loaded \cup {"childCoverage"}
    /\ cached' = cached \cup {"childCoverage"}
    /\ events' = events \o <<<<"cache", "childCoverage">>, <<"query", "childReads">>,
                             <<"query", "childCoverage">>>>
    /\ pc' = "covdist"
    /\ UNCHANGED <<vcf, error, IDs, genotypes_df, trio_df, trios_with_referenceRegion,
                   trios, collected_sites, filtered1, filtered2, snp_counts,
                   denovo_snps>>
    /\ UNCHANGED shvars

\* cd = CoverageDistribution(spark, childCoverage)
CellCoverageDistribution ==
    /\ pc = "covdist"
    /\ events' = Append(events, <<"query", "childCoverage">>)
    /\ pc' = "plot"
    /\ UNCHANGED <<vcf, error, IDs, genotypes_df, trio_df, trios_with_referenceRegion,
                   trios, collected_sites, filtered1, filtered2, snp_counts,
                   denovo_snps, cached, loaded>>
    /\ UNCHANGED shvars

\* x = cd.plot(normalize=True, cumulative=False, xScaleLog=True, labels="NA19685")
CellPlot ==
    /\ pc = "plot"
    /\ events' = Append(events, <<"plot", "childCoverage">>)
    /\ pc' = "unpersistcov"
    /\ UNCHANGED <<vcf, error, IDs, genotypes_df, trio_df, trios_with_referenceRegion,
                   trios, collected_sites, filtered1, filtered2, snp_counts,
                   denovo_snps, cached, loaded>>
    /\ UNCHANGED shvars

\* childCoverage.unpersist()
CellUnpersistCoverage ==
    /\ pc = "unpersistcov"
    /\ cached' = cached \ {"childCoverage"}
    /\ events' = Append(events, <<"unpersist", "childCoverage">>)
    /\ pc' = "viewchild"
    /\ UNCHANGED <<vcf, error, IDs, genotypes_df, trio_df, trios_with_referenceRegion,
                   trios, collected_sites, filtered1, filtered2, snp_counts,
                   denovo_snps, loaded>>
    /\ UNCHANGED shvars

\* genomicRDD.ViewAlignments(reads, contig, start, end)
ViewAlignments(at, reads, next) ==
    /\ pc = at
    /\ events' = Append(events, <<"query", reads>>)
    /\ pc' = next
    /\ UNCHANGED <<vcf, error, IDs, genotypes_df, trio_df, trios_with_referenceRegion,
                   trios, collected_sites, filtered1, filtered2, snp_counts,
                   denovo_snps, cached, loaded>>
    /\ UNCHANGED shvars

CellViewChild == ViewAlignments("viewchild", "childReads", "viewparent1")

CellViewParent1 == ViewAlignments("viewparent1", "parent1Reads", "viewparent2")

CellViewParent2 == ViewAlignments("viewparent2", "parent2Reads", "done")

AlignmentAnalysis ==
    \/ CellLoadAlignments
    \/ CellCacheChildReads
    \/ CellCoverage
    \/ CellCoverageDistribution
    \/ CellPlot
    \/ CellUnpersistCoverage
    \/ CellViewChild
    \/ CellViewParent1
    \/ CellViewParent2

NotebookInit == NotebookStart(RowSetsUpTo(MaxNotebookRecords)) /\ ScriptIdle

NotebookNext == VariantAnalysis \/ AlignmentAnalysis

\* The whole notebook, first cell to last.
SpecNotebook == NotebookInit /\ [][NotebookNext]_vars

----------------------------------------------------------------------------
(* The variant analysis with the cell that sets IDs taken as an input. *)

\* IDs lists a caller could put in the cell
TrioCandidates ==
    {TrioIDs,
     <<"NA19685", "NA12878", "NA19660">>,
     <<"NA19685", "NA19661">>,
     <<"NA19685", "NA19661", "NA19660", "NA12878">>}

\* IDs = [...]
CellIDsGiven ==
    /\ pc = "ids"
    /\ \E ids \in TrioCandidates : IDs' = ids
    /\ pc' = "trio"
    /\ UNCHANGED <<vcf, error, genotypes_df, trio_df, trios_with_referenceRegion, trios,
                   collected_sites, filtered1, filtered2, snp_counts,
                   denovo_snps, cached, loaded, events>>
    /\ UNCHANGED shvars

TrioNext == CellIDsGiven \/ VariantQueries

SpecTrio == NotebookInit /\ [][TrioNext]_vars

----------------------------------------------------------------------------
(* The install script: one action per command. *)

Outputs == {"1", "0", ""}        \* what the python one-liner can print
SparkHomes == {"", "/usr/lib/spark"}
ExitCodes == {0, 1}              \* a build tool succeeds or fails

\* bash arithmetic value of a string in [[ ... -ne ... ]]: empty is 0
ArithValue(str) == IF str = "1" THEN 1 ELSE 0

\* [[ "$INVENV" -ne 1 ]]
VirtualenvInactive(invenv) == ArithValue(invenv) # 1

\* the test written with -n instead of -z
SparkHomeSet(home) == home # ""

\* [ -z "$SPARK_HOME" ]
SparkHomeUnset(home) == home = ""

\* ! [ -x "$(command -v npm)" ]
NpmMissing(executable) == ~executable

NotebookIdle == NotebookStart({{}})

InstallInit ==
    /\ NotebookIdle
    /\ ipc = "venv"
    /\ INVENV \in Outputs
    /\ SPARK_HOME \in SparkHomes
    /\ npm \in BOOLEAN
    /\ invoked = <<>>
    /\ failed = {}
    /\ dirs = <<".">>
    /\ status = 0
    /\ echoed = <<>>
    /\ exitStatus = -1

\* if <test>; then echo <message>; exit 1; fi
Check(at, fails, message, next) ==
    /\ ipc = at
    /\ IF fails
       THEN /\ echoed' = Append(echoed, message)
            /\ exitStatus' = 1
            /\ status' = 1
            /\ ipc' = "exited"
       ELSE /\ ipc' = next
            /\ status' = 0
            /\ UNCHANGED <<echoed, exitStatus>>
    /\ UNCHANGED <<INVENV, SPARK_HOME, npm, invoked, failed, dirs>>
    /\ UNCHANGED nbvars

CheckVirtualenv ==
    Check("venv", VirtualenvInactive(INVENV), "virtualenv is not active", "sparkhome")

CheckSparkHome ==
    Check("sparkhome", SparkHomeUnset(SPARK_HOME), "You need to set SPARK_HOME", "npm")

CheckNpm ==
    Check("npm", NpmMissing(npm), "You need to install node.js", "pythonpath")

\* PY4J_ZIP=...; export PYTHONPATH=...   and
\* ASSEMBLY_DIR=...; ASSEMBLY_JAR=...; export PYSPARK_SUBMIT_ARGS=...
\* (export returns 0 whatever the command substitutions did)
Export(at, next) ==
    /\ ipc = at
    /\ status' = 0
    /\ ipc' = next
    /\ UNCHANGED <<INVENV, SPARK_HOME, npm, invoked, failed, dirs, echoed, exitStatus>>
    /\ UNCHANGED nbvars

ExportPythonPath == Export("pythonpath", "submitargs")

ExportSubmitArgs == Export("submitargs", "mvn")

\* a build tool invocation; the script goes on to the next line whatever it returns
RunTool(at, cmd, next) ==
    /\ ipc = at
    /\ \E st \in ExitCodes :
        /\ status' = st
        /\ failed' = IF st # 0 THEN failed \cup {at} ELSE failed
    /\ invoked' = Append(invoked, [cmd |-> cmd, cwd |-> Head(dirs)])
    /\ ipc' = next
    /\ UNCHANGED <<INVENV, SPARK_HOME, npm, dirs, echoed, exitStatus>>
    /\ UNCHANGED nbvars

\* pushd <dir>: fails, leaving the stack alone, when the directory is missing
Pushd(at, dir, next) ==
    /\ ipc = at
    /\ \E st \in ExitCodes :
        /\ status' = st
        /\ dirs' = IF st = 0 THEN <<dir>> \o dirs ELSE dirs
    /\ ipc' = next
    /\ UNCHANGED <<INVENV, SPARK_HOME, npm, invoked, failed, echoed, exitStatus>>
    /\ UNCHANGED nbvars

\* popd: fails when the stack holds only the current directory
PopdStatus(stack) == IF Len(stack) > 1 THEN 0 ELSE 1

Popd(at, next) ==
    /\ ipc = at
    /\ status' = PopdStatus(dirs)
    /\ dirs' = IF Len(dirs) > 1 THEN Tail(dirs) ELSE dirs
    /\ ipc' = next
    /\ exitStatus' = IF next = "exited" THEN status' ELSE exitStatus
    /\ UNCHANGED <<INVENV, SPARK_HOME, npm, invoked, failed, echoed>>
    /\ UNCHANGED nbvars

MvnPackage == RunTool("mvn", "mvn clean package -DskipTests", "pushd_python")

PushdPython == Pushd("pushd_python", "mango-python", "prepare_python")

PreparePython == RunTool("prepare_python", "make prepare", "develop_python")

DevelopPython == RunTool("develop_python", "make develop", "popd_python")

PopdPython == Popd("popd_python", "pushd_viz")

PushdViz == Pushd("pushd_viz", "mango-viz", "prepare_viz")

PrepareViz == RunTool("prepare_viz", "make prepare", "develop_viz")

DevelopViz == RunTool("develop_viz", "make develop", "popd_viz")

\* the last command: its status is the script's exit status
PopdViz == Popd("popd_viz", "exited")

InstallNext ==
    \/ CheckVirtualenv
    \/ CheckSparkHome
    \/ CheckNpm
    \/ ExportPythonPath
    \/ ExportSubmitArgs
    \/ MvnPackage
    \/ PushdPython
    \/ PreparePython
    \/ DevelopPython
    \/ PopdPython
    \/ PushdViz
    \/ PrepareViz
    \/ DevelopViz
    \/ PopdViz

SpecInstall == InstallInit /\ [][InstallNext]_vars

----------------------------------------------------------------------------
(* Vocabulary of the properties. *)

\* the cell that builds denovo_snps has run
DenovoComputed ==
    pc \notin {"load", "ids", "trio", "refregion", "register", "childquery",
               "parentquery", "snpnames"}

\* the cell that builds filtered1, filtered2 and snp_counts has run
ParentQueryDone == DenovoComputed \/ pc = "snpnames"

Parents == {"NA19661", "NA19660"}

HasAlt(r) == \E i \in DOMAIN r.alleles : r.alleles[i] = "ALT"

HasPrimary(r, v) == Len(r.names) > 0 /\ r.names[1] = v

\* the names in the de-novo result
Result == {denovo_snps[i] : i \in DOMAIN denovo_snps}

ChildAltAt(v) ==
    \E r \in vcf : r.sampleId = "NA19685" /\ HasPrimary(r, v) /\ HasAlt(r)

ParentAltAt(v) ==
    \E r \in vcf : r.sampleId \in Parents /\ HasPrimary(r, v) /\ HasAlt(r)

----------------------------------------------------------------------------
\* C1: a variant name that is the primary name of an ALT-bearing record of
\* either parent is never in the de-novo result.
C1_ParentAltExcluded ==
    DenovoComputed => \A v \in SNPs : ParentAltAt(v) => v \notin Result

\* C2: a variant name that is the primary name of an ALT-bearing child record
\* and that no parent record carries at all is in the de-novo result.
C2_MissingParentIncluded ==
    DenovoComputed =>
        \A v \in SNPs :
            (/\ ChildAltAt(v)
             /\ \A r \in vcf : r.sampleId \in Parents => v \notin Range(r.names))
            => v \in Result

\* the case of C3: child ALT at v, both parents have a record at v, none with ALT
BothParentsReferenceAt(v) ==
    /\ ChildAltAt(v)
    /\ \A p \in Parents : \E r \in vcf : r.sampleId = p /\ HasPrimary(r, v)
    /\ ~ParentAltAt(v)

\* C3: when the child has an ALT record at v and both parents have records at
\* v, all of them reference-only, v is in the de-novo result.
C3_BothParentsReference ==
    DenovoComputed => \A v \in SNPs : BothParentsReferenceAt(v) => v \in Result

C3_Witness ==
    DenovoComputed /\ \E v \in SNPs : BothParentsReferenceAt(v) /\ v \in Result

\* IDs names exactly the child and the two parents the queries name
WellFormedTrio(ids) ==
    Len(ids) = 3 /\ Range(ids) = {"NA19685", "NA19661", "NA19660"}

C5_OnlyChildAltPrimaryNames ==
    DenovoComputed => \A v \in Result : ChildAltAt(v)

\* C6: the de-novo result holds no name twice.
C6_NoDuplicates ==
    DenovoComputed =>
        \A i, j \in DOMAIN denovo_snps : denovo_snps[i] = denovo_snps[j] => i = j

----------------------------------------------------------------------------
InTrio(r) == r.sampleId \in {"NA19685", "NA19661", "NA19660"}

\* the file without the rows of samples outside the trio
TrioOnly(file) == {r \in file : InTrio(r)}

\* the parent rows of the file that decide the result: every NA19661 row and
\* every NA19660 row without ALT whose primary name is a child ALT primary name
DecidingRows ==
    {r \in vcf :
        /\ r.sampleId \in Parents
        /\ r.sampleId = "NA19661" \/ ~HasAlt(r)
        /\ \E v \in SNPs : HasPrimary(r, v) /\ ChildAltAt(v)}

\* C7: a file with no row of a trio sample gives the empty result and no
\* error; the grouped rows and the names of the result are decided by rows of
\* the three trio samples alone, whatever rows of other samples the file has.
C7_OutsidersIgnored ==
    /\ (DenovoComputed /\ TrioOnly(vcf) = {}) =>
            (denovo_snps = <<>> /\ error = "none")
    /\ ParentQueryDone =>
            {snp_counts[i].names : i \in DOMAIN snp_counts} = {r.names : r \in DecidingRows}
    /\ DenovoComputed => Result = UNION {Range(r.names) : r \in DecidingRows}

C7_Witness ==
    /\ DenovoComputed
    /\ TrioOnly(vcf) = {}
    /\ \E r \in vcf : HasAlt(r) /\ Len(r.names) > 0
    /\ denovo_snps = <<>>

----------------------------------------------------------------------------
Pinned == {"trio_df", "childReads", "childCoverage"}

At(kind, d) == {i \in DOMAIN events : events[i] = <<kind, d>>}

Loads == {i \in DOMAIN events : events[i][1] = "load"}

\* C8: at the end of the notebook, for every pinned dataset cache() came before
\* every query of it, unpersist() came after its last query, nothing is left
\* pinned, and trio_df was released before any alignment dataset was loaded.
C8_PinsReleased ==
    pc = "done" =>
        /\ \A d \in Pinned :
            /\ At("cache", d) # {}
            /\ \A c \in At("cache", d), q \in At("query", d) : c < q
            /\ At("unpersist", d) # {}
            /\ \A u \in At("unpersist", d), q \in At("query", d) : q < u
        /\ cached = {}
        /\ \A u \in At("unpersist", "trio_df"), l \in Loads : u < l

----------------------------------------------------------------------------
SwapParents(file) ==
    {[r EXCEPT !.sampleId = IF @ = "NA19661" THEN "NA19660"
                            ELSE IF @ = "NA19660" THEN "NA19661" ELSE @] :
        r \in file}

----------------------------------------------------------------------------
BuildTools ==
    <<"mvn clean package -DskipTests", "make prepare", "make develop",
      "make prepare", "make develop">>

Commands(inv) == [i \in DOMAIN inv |-> inv[i].cmd]

ChecksPass == INVENV = "1" /\ SPARK_HOME # "" /\ npm

\* the message of the first check that fails, in the order of the script
FirstFailure ==
    IF INVENV # "1" THEN "virtualenv is not active"
    ELSE IF SPARK_HOME = "" THEN "You need to set SPARK_HOME"
    ELSE "You need to install node.js"

\* C10: the checks run in the order virtualenv, SPARK_HOME, npm; the first
\* failing one ends the script with status 1 before any build tool has run;
\* when all pass, the script runs mvn and the four make invocations in order
\* whatever any of them returned.
C10_ChecksThenBuild ==
    /\ ~ChecksPass =>
        /\ invoked = <<>>
        /\ ipc \in {"venv", "sparkhome", "npm", "exited"}
        /\ ipc = "exited" => (exitStatus = 1 /\ echoed = <<FirstFailure>>)
    /\ ChecksPass =>
        /\ echoed = <<>>
        /\ Commands(invoked) = SubSeq(BuildTools, 1, Len(invoked))
        /\ ipc = "exited" => Commands(invoked) = BuildTools

C10_Witness ==
    /\ ipc = "exited"
    /\ Commands(invoked) = BuildTools
    /\ "mvn" \in failed
    /\ "prepare_python" \in failed

====
